---- MODULE Spec2Model ----
(***************************************************************************)
(* A model of two areas of the repository:                                 *)
(*   - qutip/tests/solver/test_stochastic_system.py: the finite-difference *)
(*     operators L0, L, LL, the convergence validator _check_equivalence,  *)
(*     the driver _run_derr_check and the configuration code _make_oper /  *)
(*     test_system;                                                        *)
(*   - qutip/fileio.py: file_data_store and file_data_read.                *)
(* Each area has its own specification over the shared variables; the      *)
(* variables of the other areas stay idle.                                 *)
(***************************************************************************)
EXTENDS Integers, Sequences, FiniteSets, TLC

VARIABLES
    \* ---- test_system / _run_derr_check
    pc,          \* position in test_system / _run_derr_check
    params,      \* the parameters pytest handed to test_system
    H,           \* test_system's H: a tag, then the operator built from it
    c_ops,       \* test_system's c_ops: tags, then the operators built
    built,       \* number of c_ops entries already passed to _make_oper
    type,        \* "sse" or "sme"
    heterodyne,  \* BOOLEAN
    system,      \* the constructed system object, or NoSystem
    state,       \* the state handed to _run_derr_check
    i, j, k,     \* the loop variables of _run_derr_check
    log,         \* the calls made on the system and of _check_equivalence
    \* ---- _check_equivalence
    vpc,         \* position in _check_equivalence
    fop,         \* the operator f under validation (what its discrepancy does)
    target,      \* the analytic value f is compared with
    dts,         \* np.logspace(-5, -1, 9), as half-decade exponents
    fvals,       \* f(*args, dt=dt) for the step sizes evaluated so far
    errors_dt,   \* the list errors_dt
    poly0,       \* poly[0], the fitted slope, as a fraction
    result,      \* the value returned
    \* ---- L0, L, LL
    opc,         \* "ready", then "evaluated"
    sys,         \* the system: num_collapse and the coefficients of its fields
    rho,         \* the state vector
    tm,          \* the time t
    dt,          \* the step size
    call,        \* the operator evaluated last, its field and channels
    out,         \* the vector it returned
    \* ---- file_data_store / file_data_read
    fpc,         \* "start", "stored", "returned" or a raised error
    data,        \* the matrix handed to file_data_store
    fmt,         \* numtype, numformat, sep
    file,        \* the lines of the file
    readback     \* the array file_data_read returned

drvVars == <<pc, params, H, c_ops, built, type, heterodyne, system, state, i, j, k, log>>

valVars == <<vpc, fop, target, dts, fvals, errors_dt, poly0, result>>

opVars == <<opc, sys, rho, tm, dt, call, out>>

fileVars == <<fpc, data, fmt, file, readback>>

vars == <<drvVars, valVars, opVars, fileVars>>

\* ------------------------------------------------------------------------
\* Bounds of the model
MaxCops == 2        \* longest c_ops list handed to test_system
MaxCollapse == 2    \* largest num_collapse a constructed system reports
MaxOff == 1         \* largest offset added to a discrepancy-per-step profile

\* ------------------------------------------------------------------------
\* The areas a specification does not run

DrvIdle ==
    /\ pc = "idle"
    /\ params = [H |-> "qeye", c_ops |-> <<>>]
    /\ H = [is |-> "tag", kind |-> "qeye"]
    /\ c_ops = <<>>
    /\ built = 0
    /\ type = "sse"
    /\ heterodyne = FALSE
    /\ system = [kind |-> "none", heterodyne |-> FALSE, num_collapse |-> 0]
    /\ state = 0
    /\ i = 0 /\ j = 0 /\ k = 0
    /\ log = <<>>

ValIdle ==
    /\ vpc = "idle"
    /\ fop = [profile |-> "flat", sign |-> 1]
    /\ target = [a |-> 0, b |-> 0]
    /\ dts = <<>>
    /\ fvals = <<>>
    /\ errors_dt = <<>>
    /\ poly0 = [num |-> [a |-> 0, b |-> 0], den |-> [a |-> 0, b |-> 0]]
    /\ result = FALSE

OpIdle ==
    /\ opc = "idle"
    /\ sys = <<>>
    /\ rho = <<>>
    /\ tm = 0
    /\ dt = 0
    /\ call = <<>>
    /\ out = <<>>

FileIdle ==
    /\ fpc = "idle"
    /\ data = <<>>
    /\ fmt = <<>>
    /\ file = <<>>
    /\ readback = <<>>

\* ------------------------------------------------------------------------
\* test_stochastic_system.py: configuration

Kinds == {"qeye", "destroy", "destroy2", "tridiag", "td", "rand"}
Tags == Kinds \cup {"other"}

DimN == 5           \* test_system: N = 5
TimeZero == 0       \* _run_derr_check: t = 0

NoSystem == [kind |-> "none", heterodyne |-> FALSE, num_collapse |-> 0]

Tag(kind) == [is |-> "tag", kind |-> kind]          \* a parametrize string
QobjEvo(kind) == [is |-> "QobjEvo", kind |-> kind]  \* QobjEvo(out)

\* _make_oper with a final "else" that falls back to qeye
make_oper_default(kind) ==
    IF kind \in Kinds THEN [raised |-> FALSE, oper |-> QobjEvo(kind)]
    ELSE [raised |-> FALSE, oper |-> QobjEvo("qeye")]

\* _make_oper(kind, N): the if/elif chain binds `out` for the six tags and
\* has no else; `return QobjEvo(out)` then reads an unbound local, which
\* raises UnboundLocalError inside _make_oper.
make_oper(kind) ==
    CASE kind = "qeye"     -> [raised |-> FALSE, oper |-> QobjEvo("qeye")]
      [] kind = "destroy"  -> [raised |-> FALSE, oper |-> QobjEvo("destroy")]
      [] kind = "destroy2" -> [raised |-> FALSE, oper |-> QobjEvo("destroy2")]
      [] kind = "tridiag"  -> [raised |-> FALSE, oper |-> QobjEvo("tridiag")]
      [] kind = "td"       -> [raised |-> FALSE, oper |-> QobjEvo("td")]
      [] kind = "rand"     -> [raised |-> FALSE, oper |-> QobjEvo("rand")]
      [] OTHER             -> [raised |-> TRUE,  oper |-> Tag(kind)]

\* state = basis(N, N-2).data: the index of the basis vector
TestState == DimN - 2

\* ------------------------------------------------------------------------
\* test_stochastic_system.py: _run_derr_check

\* `for x in range(n)` stops one iteration early
InRangeShort(x, n) == x < n - 1

\* `for x in range(n)`: x is a loop value iff 0 <= x < n
InRange(x, n) == x >= 0 /\ x < n

\* the argument tuple at a different time
ArgsLater(s) == [t |-> TimeZero + 1, state |-> s]

\* (t, state): the argument tuple handed to every check
Args(s) == [t |-> TimeZero, state |-> s]

Drift == [f |-> "a", ch |-> -1]          \* a = solver.drift
Diffusion(c) == [f |-> "b", ch |-> c]    \* b = lambda *args: solver.diffusion(*args)[i]

\* _check_equivalence(L0(solver, a), solver.L0a(), (t, state))
CallL0a(s) ==
    [ev |-> "validate", op |-> "L0", dirs |-> <<>>, field |-> Drift,
     ref |-> "L0a", refargs |-> <<>>, at |-> Args(s)]

\* _check_equivalence(L0(solver, b), solver.L0bi(i), (t, state))
CallL0bi(s, ii) ==
    [ev |-> "validate", op |-> "L0", dirs |-> <<>>, field |-> Diffusion(ii),
     ref |-> "L0bi", refargs |-> <<ii>>, at |-> Args(s)]

\* _check_equivalence(L(solver, i, a), solver.Lia(i), (t, state))
CallLia(s, ii) ==
    [ev |-> "validate", op |-> "L", dirs |-> <<ii>>, field |-> Drift,
     ref |-> "Lia", refargs |-> <<ii>>, at |-> Args(s)]

\* the reference accessor called with its two arguments exchanged
CallLibjSwapped(s, ii, jj) ==
    [ev |-> "validate", op |-> "L", dirs |-> <<jj>>, field |-> Diffusion(ii),
     ref |-> "Libj", refargs |-> <<ii, jj>>, at |-> Args(s)]

\* _check_equivalence(L(solver, j, b), solver.Libj(j, i), (t, state))
CallLibj(s, ii, jj) ==
    [ev |-> "validate", op |-> "L", dirs |-> <<jj>>, field |-> Diffusion(ii),
     ref |-> "Libj", refargs |-> <<jj, ii>>, at |-> Args(s)]

\* the reference accessor called as LiLjbk(k, i, j)
CallLiLjbkSwapped(s, ii, jj, kk) ==
    [ev |-> "validate", op |-> "LL", dirs |-> <<kk, jj>>, field |-> Diffusion(ii),
     ref |-> "LiLjbk", refargs |-> <<kk, ii, jj>>, at |-> Args(s)]

\* _check_equivalence(LL(solver, k, j, b), solver.LiLjbk(k, j, i), (t, state))
CallLiLjbk(s, ii, jj, kk) ==
    [ev |-> "validate", op |-> "LL", dirs |-> <<kk, jj>>, field |-> Diffusion(ii),
     ref |-> "LiLjbk", refargs |-> <<kk, jj, ii>>, at |-> Args(s)]

\* solver.set_state(t, state)
CallSetState(s) ==
    [ev |-> "set_state", op |-> "", dirs |-> <<>>, field |-> Drift,
     ref |-> "", refargs |-> <<>>, at |-> Args(s)]

\* assert solver.drift(t, state) == solver.a()
CallA(s) ==
    [ev |-> "equal", op |-> "", dirs |-> <<>>, field |-> Drift,
     ref |-> "a", refargs |-> <<>>, at |-> Args(s)]

\* assert b(t, state) == solver.bi(i)
CallBi(s, ii) ==
    [ev |-> "equal", op |-> "", dirs |-> <<>>, field |-> Diffusion(ii),
     ref |-> "bi", refargs |-> <<ii>>, at |-> Args(s)]

N == system.num_collapse

\* ------------------------------------------------------------------------
\* Actions of test_system

InitDriver ==
    /\ pc = "make_H"
    /\ params \in [H : Tags, c_ops : UNION {[1..n -> Tags] : n \in 1..MaxCops}]
    /\ H = Tag(params.H)
    /\ c_ops = [x \in 1..Len(params.c_ops) |-> Tag(params.c_ops[x])]
    /\ built = 0
    /\ type \in {"sse", "sme"}
    /\ heterodyne \in BOOLEAN
    /\ system = NoSystem
    /\ state = TestState
    /\ i = 0 /\ j = 0 /\ k = 0
    /\ log = <<>>
    /\ ValIdle
    /\ OpIdle
    /\ FileIdle

\* H = _make_oper(H, N)
MakeH ==
    /\ pc = "make_H"
    /\ LET r == make_oper(H.kind) IN
         IF r.raised
         THEN /\ pc' = "raised_in_make_oper"
              /\ H' = H
         ELSE /\ pc' = "make_c_ops"
              /\ H' = r.oper
    /\ UNCHANGED <<params, c_ops, built, type, heterodyne, system, state, i, j, k, log, valVars, opVars, fileVars>>

\* c_ops = [_make_oper(op, N) for op in c_ops], one element per step; the
\* list is bound to c_ops only when the comprehension completes.
MakeCop ==
    /\ pc = "make_c_ops"
    /\ built < Len(c_ops)
    /\ LET r == make_oper(c_ops[built + 1].kind) IN
         IF r.raised
         THEN /\ pc' = "raised_in_make_oper"
              /\ UNCHANGED <<built, c_ops>>
         ELSE /\ built' = built + 1
              /\ IF built + 1 = Len(c_ops)
                 THEN /\ pc' = "construct"
                      /\ c_ops' = [x \in 1..Len(c_ops) |-> make_oper(c_ops[x].kind).oper]
                 ELSE /\ pc' = "make_c_ops"
                      /\ c_ops' = c_ops
    /\ UNCHANGED <<params, H, type, heterodyne, system, state, i, j, k, log, valVars, opVars, fileVars>>

\* system = StochasticClosedSystem(H, c_ops, heterodyne) or
\* StochasticOpenSystem(H, c_ops, heterodyne); the constructor is the
\* system's own and reports its num_collapse.
Construct ==
    /\ pc = "construct"
    /\ \E n \in 1..MaxCollapse :
         system' = [kind |-> IF type = "sse" THEN "StochasticClosedSystem"
                             ELSE "StochasticOpenSystem",
                    heterodyne |-> heterodyne,
                    num_collapse |-> n]
    /\ pc' = "set_state"
    /\ UNCHANGED <<params, H, c_ops, built, type, heterodyne, state, i, j, k, log, valVars, opVars, fileVars>>

\* ------------------------------------------------------------------------
\* Actions of _run_derr_check

\* solver.set_state(t, state)
SetState ==
    /\ pc = "set_state"
    /\ log' = Append(log, CallSetState(state))
    /\ pc' = "assert_a"
    /\ UNCHANGED <<params, H, c_ops, built, type, heterodyne, system, state, i, j, k, valVars, opVars, fileVars>>

\* an assert either passes or raises AssertionError
Asserted(entry, nextpc) ==
    /\ log' = Append(log, entry)
    /\ \E ok \in BOOLEAN : pc' = IF ok THEN nextpc ELSE "assertion_failed"

\* assert solver.drift(t, state) == solver.a()
AssertA ==
    /\ pc = "assert_a"
    /\ Asserted(CallA(state), "check_L0a")
    /\ UNCHANGED <<params, H, c_ops, built, type, heterodyne, system, state, i, j, k, valVars, opVars, fileVars>>

\* assert _check_equivalence(L0(solver, a), solver.L0a(), (t, state)),
\* then the head of `for i in range(N)`
CheckL0a ==
    /\ pc = "check_L0a"
    /\ log' = Append(log, CallL0a(state))
    /\ \E ok \in BOOLEAN :
         pc' = IF ~ok THEN "assertion_failed"
               ELSE IF InRange(0, N) THEN "assert_bi" ELSE "done"
    /\ i' = 0
    /\ UNCHANGED <<params, H, c_ops, built, type, heterodyne, system, state, j, k, valVars, opVars, fileVars>>

\* assert b(t, state) == solver.bi(i)
AssertBi ==
    /\ pc = "assert_bi"
    /\ Asserted(CallBi(state, i), "check_L0bi")
    /\ UNCHANGED <<params, H, c_ops, built, type, heterodyne, system, state, i, j, k, valVars, opVars, fileVars>>

\* assert _check_equivalence(L0(solver, b), solver.L0bi(i), (t, state))
CheckL0bi ==
    /\ pc = "check_L0bi"
    /\ Asserted(CallL0bi(state, i), "check_Lia")
    /\ UNCHANGED <<params, H, c_ops, built, type, heterodyne, system, state, i, j, k, valVars, opVars, fileVars>>

\* the head of `for i in range(N)` after an iteration
NextI(ok) ==
    IF ~ok THEN [pc |-> "assertion_failed", i |-> i]
    ELSE IF InRange(i + 1, N) THEN [pc |-> "assert_bi", i |-> i + 1]
    ELSE [pc |-> "done", i |-> i]

\* the head of `for j in range(N)` after an iteration
NextJ(ok) ==
    IF ~ok THEN [pc |-> "assertion_failed", i |-> i, j |-> j]
    ELSE IF InRange(j + 1, N) THEN [pc |-> "check_Libj", i |-> i, j |-> j + 1]
    ELSE NextI(ok) @@ [j |-> j]

\* the head of `for k in range(N)` after an iteration
NextK(ok) ==
    IF ~ok THEN [pc |-> "assertion_failed", i |-> i, j |-> j, k |-> k]
    ELSE IF InRange(k + 1, N) THEN [pc |-> "check_LiLjbk", i |-> i, j |-> j, k |-> k + 1]
    ELSE NextJ(ok) @@ [k |-> k]

\* assert _check_equivalence(L(solver, i, a), solver.Lia(i), (t, state)),
\* then the head of `for j in range(N)`
CheckLia ==
    /\ pc = "check_Lia"
    /\ log' = Append(log, CallLia(state, i))
    /\ \E ok \in BOOLEAN :
         LET nx == IF ~ok THEN [pc |-> "assertion_failed", i |-> i]
                   ELSE IF InRange(0, N) THEN [pc |-> "check_Libj", i |-> i]
                   ELSE NextI(ok)
         IN /\ pc' = nx.pc
            /\ i' = nx.i
    /\ j' = 0
    /\ UNCHANGED <<params, H, c_ops, built, type, heterodyne, system, state, k, valVars, opVars, fileVars>>

\* assert _check_equivalence(L(solver, j, b), solver.Libj(j, i), (t, state)),
\* then the head of `for k in range(N)`
CheckLibj ==
    /\ pc = "check_Libj"
    /\ log' = Append(log, CallLibj(state, i, j))
    /\ \E ok \in BOOLEAN :
         LET nx == IF ~ok THEN [pc |-> "assertion_failed", i |-> i, j |-> j]
                   ELSE IF InRange(0, N) THEN [pc |-> "check_LiLjbk", i |-> i, j |-> j]
                   ELSE NextJ(ok)
         IN /\ pc' = nx.pc
            /\ i' = nx.i
            /\ j' = nx.j
    /\ k' = 0
    /\ UNCHANGED <<params, H, c_ops, built, type, heterodyne, system, state, valVars, opVars, fileVars>>

\* assert _check_equivalence(LL(solver, k, j, b), solver.LiLjbk(k, j, i),
\*                           (t, state))
CheckLiLjbk ==
    /\ pc = "check_LiLjbk"
    /\ log' = Append(log, CallLiLjbk(state, i, j, k))
    /\ \E ok \in BOOLEAN :
         LET nx == NextK(ok)
         IN /\ pc' = nx.pc
            /\ i' = nx.i
            /\ j' = nx.j
            /\ k' = nx.k
    /\ UNCHANGED <<params, H, c_ops, built, type, heterodyne, system, state, valVars, opVars, fileVars>>

NextDriver ==
    \/ MakeH
    \/ MakeCop
    \/ Construct
    \/ SetState
    \/ AssertA
    \/ CheckL0a
    \/ AssertBi
    \/ CheckL0bi
    \/ CheckLia
    \/ CheckLibj
    \/ CheckLiLjbk

SpecDriver == InitDriver /\ [][NextDriver]_vars

\* ------------------------------------------------------------------------
\* Properties of the driver

Validations == {n \in DOMAIN log : log[n].ev = "validate"}
ValidationsOf(ref) == {n \in DOMAIN log : log[n].ev = "validate" /\ log[n].ref = ref}
Indices == 0..(N - 1)

\* C1 as stated: every validation against Libj passes the index of the
\* differentiated diffusion channel as Libj's first argument and the index
\* of the direction channel as its second.
C1_AsStated ==
    \A n \in ValidationsOf("Libj") :
        /\ log[n].op = "L"
        /\ log[n].field.f = "b"
        /\ log[n].refargs[1] = log[n].field.ch
        /\ log[n].refargs[2] = log[n].dirs[1]

\* C1 amended: every validation against Libj applies L to a diffusion
\* channel, passes the index of the DIRECTION channel as Libj's first
\* argument and the index of the differentiated diffusion channel as its
\* second; a completed run has validated every pair of [0, N)^2.
C1_LibjArguments ==
    /\ \A n \in ValidationsOf("Libj") :
        /\ log[n].op = "L"
        /\ log[n].field.f = "b"
        /\ log[n].refargs[1] = log[n].dirs[1]
        /\ log[n].refargs[2] = log[n].field.ch
    /\ pc = "done" =>
         {log[n].refargs : n \in ValidationsOf("Libj")} = Indices \X Indices

\* a completed run that validated Libj with direction and field different
C1_Witness ==
    /\ pc = "done"
    /\ \E n \in ValidationsOf("Libj") : log[n].dirs[1] # log[n].field.ch

\* C2 as stated: every validation against LiLjbk differentiates the diffusion
\* channel named by LiLjbk's second argument along the channels named by its
\* first and third arguments, in that order.
C2_AsStated ==
    \A n \in ValidationsOf("LiLjbk") :
        /\ log[n].op = "LL"
        /\ log[n].field.f = "b"
        /\ log[n].field.ch = log[n].refargs[2]
        /\ log[n].dirs = <<log[n].refargs[1], log[n].refargs[3]>>

\* C2 amended: every validation against LiLjbk differentiates the diffusion
\* channel named by LiLjbk's THIRD argument along the channels named by its
\* first and second arguments, in that order; a completed run has validated
\* every triple of [0, N)^3.
C2_LiLjbkArguments ==
    /\ \A n \in ValidationsOf("LiLjbk") :
        /\ log[n].op = "LL"
        /\ log[n].field.f = "b"
        /\ log[n].field.ch = log[n].refargs[3]
        /\ log[n].dirs = <<log[n].refargs[1], log[n].refargs[2]>>
    /\ pc = "done" =>
         {log[n].refargs : n \in ValidationsOf("LiLjbk")}
            = Indices \X Indices \X Indices

\* a completed run that validated LiLjbk with three different roles apart
C2_Witness ==
    /\ pc = "done"
    /\ \E n \in ValidationsOf("LiLjbk") :
          /\ log[n].field.ch # log[n].dirs[2]
          /\ log[n].dirs[1] = log[n].dirs[2]

\* C6: a completed run made exactly 1 + 2N + N^2 + N^3 validations: one
\* against L0a, N against L0bi, N against Lia, N^2 against Libj and N^3
\* against LiLjbk, no index tuple twice (five validations when N = 1).
C6_ValidationCount ==
    pc = "done" =>
        /\ Cardinality(Validations) = 1 + 2 * N + N * N + N * N * N
        /\ Cardinality(ValidationsOf("L0a")) = 1
        /\ Cardinality(ValidationsOf("L0bi")) = N
        /\ Cardinality(ValidationsOf("Lia")) = N
        /\ Cardinality(ValidationsOf("Libj")) = N * N
        /\ Cardinality(ValidationsOf("LiLjbk")) = N * N * N
        /\ \A m, n \in Validations :
              (log[m].ref = log[n].ref /\ log[m].refargs = log[n].refargs) => m = n
        /\ N = 1 => Cardinality(Validations) = 5

\* a completed run on a system with more than one channel
C6_Witness == pc = "done" /\ N > 1 /\ Cardinality(Validations) > 5

UnsupportedTag ==
    \/ params.H \notin Kinds
    \/ \E x \in DOMAIN params.c_ops : params.c_ops[x] \notin Kinds

\* C7: when test_system is given a tag outside the six supported ones, the
\* _make_oper call on that tag returns no operator (the name keeps its tag),
\* no system is ever constructed and _run_derr_check never starts: the run
\* is still configuring or has ended in the error raised in _make_oper.
C7_UnsupportedTagRaises ==
    UnsupportedTag =>
        /\ system = NoSystem
        /\ log = <<>>
        /\ pc \in {"make_H", "make_c_ops", "raised_in_make_oper"}
        /\ params.H \notin Kinds => H = Tag(params.H)
        /\ \A x \in DOMAIN c_ops : c_ops[x] = Tag(params.c_ops[x])

\* the error raised by the second _make_oper call of the c_ops list
C7_Witness ==
    /\ pc = "raised_in_make_oper"
    /\ H.is = "QobjEvo"
    /\ built = 1

SetStates == {n \in DOMAIN log : log[n].ev = "set_state"}

\* C9: set_state(0, state) is called at most once, it is the first call of
\* the run (before any cached accessor is read), it is never called again,
\* and every equality check and every validation is evaluated at t = 0 and
\* at the state passed to set_state.
C9_SetStateOnceFirst ==
    /\ Cardinality(SetStates) <= 1
    /\ log # <<>> => SetStates = {1}
    /\ pc \notin {"make_H", "make_c_ops", "construct", "set_state",
                  "raised_in_make_oper"} => SetStates = {1}
    /\ \A n \in DOMAIN log :
          /\ log[n].at.t = 0
          /\ log[n].at.state = log[1].at.state
          /\ log[n].at.state = state

\* a completed run: set_state first, then accessors read and validated
C9_Witness ==
    /\ pc = "done"
    /\ Len(log) > 5
    /\ log[1].ev = "set_state"
    /\ log[2].ref = "a"

\* ------------------------------------------------------------------------
\* Exact arithmetic in Z[sqrt 10]: [a |-> x, b |-> y] is x + y * sqrt(10).
\* The step sizes 10^(h/2) are, in units of 10^-5, elements of this ring.

Q(x, y) == [a |-> x, b |-> y]
QZero == Q(0, 0)
QAdd(u, v) == Q(u.a + v.a, u.b + v.b)
QSub(u, v) == Q(u.a - v.a, u.b - v.b)
QMul(u, v) == Q(u.a * v.a + 10 * u.b * v.b, u.a * v.b + u.b * v.a)
QScale(n, u) == Q(n * u.a, n * u.b)
QNeg(u) == Q(0 - u.a, 0 - u.b)

\* p/q > 3 + sqrt(10) = [6; 6, 6, ...] for p >= 0, q > 0
RECURSIVE GtAlpha(_, _)
GtAlpha(p, q) ==
    IF p \div q > 6 THEN TRUE
    ELSE IF p \div q < 6 THEN FALSE
    ELSE (p % q > 0) /\ ~GtAlpha(q, p % q)

\* p/q > sqrt(10) = 3 + 1/(3 + sqrt(10)) for p >= 0, q > 0
GtSqrt10(p, q) ==
    IF p \div q > 3 THEN TRUE
    ELSE IF p \div q < 3 THEN FALSE
    ELSE (p % q > 0) /\ ~GtAlpha(q, p % q)

\* the sign of x + y * sqrt(10): -1, 0 or 1
QSign(u) ==
    IF u.a = 0 /\ u.b = 0 THEN 0
    ELSE IF u.a >= 0 /\ u.b >= 0 THEN 1
    ELSE IF u.a <= 0 /\ u.b <= 0 THEN -1
    ELSE IF u.a > 0 THEN (IF GtSqrt10(u.a, 0 - u.b) THEN 1 ELSE -1)
    ELSE (IF GtSqrt10(0 - u.a, u.b) THEN -1 ELSE 1)

QLess(u, v) == QSign(QSub(v, u)) > 0
QAbs(u) == IF QSign(u) < 0 THEN QNeg(u) ELSE u

RECURSIVE Pow10(_)
Pow10(e) == IF e = 0 THEN 1 ELSE 10 * Pow10(e - 1)

RECURSIVE QSum(_)
QSum(seq) == IF seq = <<>> THEN QZero ELSE QAdd(Head(seq), QSum(Tail(seq)))

\* ------------------------------------------------------------------------
\* test_stochastic_system.py: _check_equivalence

LogStart == -5      \* np.logspace(-5, -1, 9)
LogStop == -1
NumSteps == 9

\* np.linspace(start, stop, num)[n], n = 0 .. num-1, doubled:
\* 2 * (start + n * (stop - start) / (num - 1))
HalfExponent(n) == 2 * LogStart + (n * 2 * (LogStop - LogStart)) \div (NumSteps - 1)

\* np.logspace(-5, -1, 9): the half-decade exponents of the nine step sizes
logspace == [n \in 1..NumSteps |-> HalfExponent(n - 1)]

\* the step size 10^(h/2) in units of 10^-5
DtValue(h) ==
    LET e == h - 2 * LogStart
    IN IF e % 2 = 0 THEN Q(Pow10(e \div 2), 0) ELSE Q(0, Pow10((e - 1) \div 2))

\* u / dt for the step size dt = 10^(h/2): a division by 10^p, or by
\* 10^p * sqrt(10)
QDivDt(u, h) ==
    LET d == DtValue(h)
    IN IF d.b = 0 THEN Q(u.a \div d.a, u.b \div d.a)
       ELSE Q(u.b \div d.b, u.a \div (10 * d.b))

\* the discrepancy is not divided by the step size
ErrorNotDivided(fv, tg, h) == QAbs(QSub(fv, tg))

\* _data.norm.l2(f(*args, dt=dt) - target) / dt, for one-component values
ErrorPerStep(fv, tg, h) == QDivDt(QAbs(QSub(fv, tg)), h)

\* np.polyfit(x, y, 1)[0]: the slope of the least-squares line,
\* (n Sxy - Sx Sy) / (n Sxx - Sx Sx), as a fraction of ring elements
polyfit_slope(xs, ys) ==
    LET n == Len(xs)
        Sx == QSum(xs)
        Sy == QSum(ys)
        Sxy == QSum([m \in 1..n |-> QMul(xs[m], ys[m])])
        Sxx == QSum([m \in 1..n |-> QMul(xs[m], xs[m])])
    IN [num |-> QSub(QScale(n, Sxy), QMul(Sx, Sy)),
        den |-> QSub(QScale(n, Sxx), QMul(Sx, Sx))]

\* -1 <= s <= 1
InClosedInterval(s) ==
    /\ QSign(QAdd(s.num, s.den)) >= 0
    /\ QSign(QSub(s.den, s.num)) >= 0

\* -1 < poly[0] < 1 for the slope s = num / den, den > 0
InOpenInterval(s) ==
    /\ QLess(QNeg(s.den), s.num)
    /\ QLess(s.num, s.den)

\* What the discrepancy of the operator under validation, divided by the
\* step size, does over the sweep: constant (a first-order scheme), rising
\* with slope one, or falling with slope minus one from the largest step
\* size; each plus an offset per step.
Profiles == {"flat", "rising", "falling"}
TopStep == DtValue(2 * LogStop)
ProfileValue(pf, h, off) ==
    CASE pf = "flat"    -> Q(off, 0)
      [] pf = "rising"  -> QAdd(DtValue(h), Q(off, 0))
      [] pf = "falling" -> QAdd(QSub(TopStep, DtValue(h)), Q(off, 0))

\* f(*args, dt=dt): the target plus or minus a discrepancy of step size
\* times profile
FValue(op, tg, h, off) ==
    QAdd(tg, QScale(op.sign, QMul(DtValue(h), ProfileValue(op.profile, h, off))))

\* _check_equivalence(f, target, args) is entered: dts = np.logspace(-5, -1, 9)
InitValidator ==
    /\ DrvIdle
    /\ OpIdle
    /\ FileIdle
    /\ vpc = "sweep"
    /\ fop \in [profile : Profiles, sign : {-1, 1}]
    /\ target = Q(3, 1)
    /\ dts = logspace
    /\ fvals = <<>>
    /\ errors_dt = <<>>
    /\ poly0 = [num |-> QZero, den |-> QZero]
    /\ result = FALSE

\* one element of the list comprehension:
\* _data.norm.l2(f(*args, dt=dt) - target) / dt for the next dt of dts
SweepStep ==
    /\ vpc = "sweep"
    /\ Len(errors_dt) < Len(dts)
    /\ \E off \in 0..MaxOff :
         LET h == dts[Len(errors_dt) + 1]
             fv == FValue(fop, target, h, off)
         IN /\ fvals' = Append(fvals, fv)
            /\ errors_dt' = Append(errors_dt, ErrorPerStep(fv, target, h))
    /\ vpc' = IF Len(errors_dt) + 1 = Len(dts) THEN "fit" ELSE "sweep"
    /\ UNCHANGED <<fop, target, dts, poly0, result, drvVars, opVars, fileVars>>

\* poly = np.polyfit(dts, errors_dt, 1); return -1 < poly[0] < 1
FitAndReturn ==
    /\ vpc = "fit"
    /\ LET s == polyfit_slope([m \in 1..Len(dts) |-> DtValue(dts[m])], errors_dt)
       IN /\ poly0' = s
          /\ result' = InOpenInterval(s)
    /\ vpc' = "returned"
    /\ UNCHANGED <<fop, target, dts, fvals, errors_dt, drvVars, opVars, fileVars>>

NextValidator ==
    \/ SweepStep
    \/ FitAndReturn

SpecValidator == InitValidator /\ [][NextValidator]_vars

\* ------------------------------------------------------------------------
\* Properties of the validator

StepValues == [m \in 1..Len(dts) |-> DtValue(dts[m])]

\* the sum over the sweep of (9 x_m - Sx) * r_m: the numerator of the
\* least-squares slope of the residuals r against the step sizes x
Covariance(rs) ==
    LET Sx == QSum(StepValues)
    IN QSum([m \in 1..Len(dts) |->
                QMul(QSub(QScale(Len(dts), StepValues[m]), Sx), rs[m])])

SlopeBelowOne ==
    QSign(Covariance([m \in 1..Len(dts) |-> QSub(errors_dt[m], StepValues[m])])) < 0
SlopeAboveMinusOne ==
    QSign(Covariance([m \in 1..Len(dts) |-> QAdd(errors_dt[m], StepValues[m])])) > 0

\* all errors_dt[m] - x_m equal: the fitted slope is exactly 1
SlopeExactlyOne ==
    \A m \in 1..Len(dts) :
        QSub(errors_dt[m], StepValues[m]) = QSub(errors_dt[1], StepValues[1])
\* all errors_dt[m] + x_m equal: the fitted slope is exactly -1
SlopeExactlyMinusOne ==
    \A m \in 1..Len(dts) :
        QAdd(errors_dt[m], StepValues[m]) = QAdd(errors_dt[1], StepValues[1])

\* C3: _check_equivalence evaluates f at exactly nine step sizes, strictly
\* increasing, 10^-5, 10^-4.5, ..., 10^-1; errors_dt[m] is the norm of
\* f(dt_m) - target divided by dt_m; the value returned is TRUE exactly when
\* the slope of the least-squares line through (dt_m, errors_dt[m]) is
\* strictly between -1 and 1; a slope of exactly 1 or exactly -1 returns
\* FALSE.
C3_Validator ==
    vpc = "returned" =>
        /\ Len(dts) = 9 /\ Len(fvals) = 9 /\ Len(errors_dt) = 9
        /\ \A m \in 1..9 : dts[m] = 2 * (-5) + (m - 1)
        /\ DtValue(dts[1]) = Q(1, 0) /\ DtValue(dts[9]) = Q(10000, 0)
        /\ \A m \in 1..8 : QLess(DtValue(dts[m]), DtValue(dts[m + 1]))
        /\ \A m \in 1..9 :
              QMul(errors_dt[m], DtValue(dts[m])) = QAbs(QSub(fvals[m], target))
        /\ result <=> (SlopeBelowOne /\ SlopeAboveMinusOne)
        /\ SlopeExactlyOne => ~result
        /\ SlopeExactlyMinusOne => ~result

\* a run that returned FALSE on a slope of exactly one
C3_Witness ==
    /\ vpc = "returned"
    /\ SlopeExactlyOne
    /\ ~result
    /\ errors_dt[1] # Q(1, 0)

\* runs returning TRUE on a rising profile pulled below slope one, FALSE on
\* a slope of exactly minus one
C3_WitnessInside == vpc = "returned" /\ result /\ fop.profile = "rising"
C3_WitnessMinusOne == vpc = "returned" /\ ~result /\ SlopeExactlyMinusOne

\* ------------------------------------------------------------------------
\* Exact complex arithmetic: [re, im, den] is (re + i * im) / den, reduced,
\* den > 0.  Vectors are sequences of such numbers; position m of a
\* sequence is the component m - 1 of the code.

MaxDim == 2         \* largest dimension n of a state vector

RECURSIVE GCD(_, _)
GCD(x, y) == IF y = 0 THEN x ELSE GCD(y, x % y)

IAbs(x) == IF x < 0 THEN 0 - x ELSE x

CNorm(re, im, den) ==
    IF den = 1 THEN [re |-> re, im |-> im, den |-> 1]
    ELSE LET g == GCD(GCD(IAbs(re), IAbs(im)), IAbs(den))
             s == IF den < 0 THEN -1 ELSE 1
         IN [re |-> (s * re) \div g, im |-> (s * im) \div g, den |-> IAbs(den) \div g]

Cx(re, im) == [re |-> re, im |-> im, den |-> 1]
CZero == Cx(0, 0)
COne == Cx(1, 0)
Half == CNorm(1, 0, 2)                                   \* 0.5
CAdd(z, w) == CNorm(z.re * w.den + w.re * z.den, z.im * w.den + w.im * z.den,
                    z.den * w.den)
CSub(z, w) == CNorm(z.re * w.den - w.re * z.den, z.im * w.den - w.im * z.den,
                    z.den * w.den)
CMul(z, w) == CNorm(z.re * w.re - z.im * w.im, z.re * w.im + z.im * w.re,
                    z.den * w.den)
CDiv(z, w) == CNorm((z.re * w.re + z.im * w.im) * w.den,
                    (z.im * w.re - z.re * w.im) * w.den,
                    z.den * (w.re * w.re + w.im * w.im))
CConj(z) == [re |-> z.re, im |-> 0 - z.im, den |-> z.den]

\* a vector as an explicit sequence of its n components
Vec(v, n) == SubSeq(v, 1, n)

VZero(n) == Vec([m \in 1..n |-> CZero], n)
VAdd(u, v) == Vec([m \in 1..Len(u) |-> CAdd(u[m], v[m])], Len(u))
VSub(u, v) == Vec([m \in 1..Len(u) |-> CSub(u[m], v[m])], Len(u))
VScale(v, c) == Vec([m \in 1..Len(v) |-> CMul(v[m], c)], Len(v))      \* v * c
VDivS(v, c) == Vec([m \in 1..Len(v) |-> CDiv(v[m], c)], Len(v))       \* v / c

RECURSIVE VSum(_, _)
VSum(vs, n) == IF vs = <<>> THEN VZero(n) ELSE VAdd(Head(vs), VSum(Tail(vs), n))

RECURSIVE CSum(_)
CSum(zs) == IF zs = <<>> THEN CZero ELSE CAdd(Head(zs), CSum(Tail(zs)))

\* basis(n, i).data: the unit vector along direction i
basis(n, d) == Vec([m \in 1..n |-> IF m = d THEN COne ELSE CZero], n)

\* _data.inner(u, v): <u|v>, conjugate-linear in u
inner(u, v) == CSum([m \in 1..Len(u) |-> CMul(CConj(u[m]), v[m])])

\* _data.Dense(jac) @ v, jac given by its columns jac[:, i]
MatVec(cols, v) == VSum([m \in 1..Len(cols) |-> VScale(cols[m], v[m])], Len(v))

\* product(range(n), repeat=2), in the order of the loop
product2(n) == [m \in 1..(n * n) |-> <<((m - 1) \div n) + 1, ((m - 1) % n) + 1>>]

\* ------------------------------------------------------------------------
\* The system object: drift(t, state) and diffusion(t, state).  Each field
\* is lin * x[m] + shift * x[m+1 cyclic] + td * t * x[m] + quad * x[1] * x[m]:
\* linear, time-dependent and state-dependent parts with complex
\* coefficients.

CoefA == [lin |-> Cx(0, -1), shift |-> Cx(1, 0), td |-> Cx(1, 0), quad |-> Cx(0, 0)]
CoefB == [lin |-> Cx(1, 0), shift |-> Cx(0, 1), td |-> Cx(0, 0), quad |-> Cx(-1, 0)]

FieldValue(cf, t, x) ==
    Vec([m \in 1..Len(x) |->
            CAdd(CAdd(CMul(cf.lin, x[m]), CMul(cf.shift, x[(m % Len(x)) + 1])),
                 CAdd(CMul(CMul(cf.td, t), x[m]), CMul(CMul(cf.quad, x[1]), x[m])))],
        Len(x))

\* the systems evaluated: channels alternate between the two coefficient
\* sets, starting with either
Systems ==
    {[num_collapse |-> n,
      a |-> IF par = 0 THEN CoefB ELSE CoefA,
      b |-> [c \in 0..(n - 1) |-> IF c % 2 = par THEN CoefA ELSE CoefB]] :
        n \in 1..MaxCollapse, par \in {0, 1}}

\* system.drift(t, rho)
drift(sp, t, x) == FieldValue(sp.a, t, x)

\* system.diffusion(t, rho): one vector per channel 0 .. num_collapse - 1
diffusion(sp, t, x) == [c \in 0..(sp.num_collapse - 1) |-> FieldValue(sp.b[c], t, x)]

\* The fields f handed to L0, L and LL: the identity f(t, state) = state,
\* a = solver.drift, and b = lambda *args: solver.diffusion(*args)[i]
Identity == [f |-> "id", ch |-> -1]
Fields(sp) == {Identity, [f |-> "a", ch |-> -1]}
                \cup {[f |-> "b", ch |-> c] : c \in 0..(sp.num_collapse - 1)}

f(sp, fd, t, x) ==
    CASE fd.f = "id" -> x
      [] fd.f = "a"  -> drift(sp, t, x)
      [] fd.f = "b"  -> diffusion(sp, t, x)[fd.ch]

\* ------------------------------------------------------------------------
\* test_stochastic_system.py: L0, L, LL

\* rho + dxi * dt
Shift1(x, h, d) == VAdd(x, VScale(basis(Len(x), d), h))
\* rho + dxi * dt + dxj * dt
Shift2(x, h, d, e) == VAdd(VAdd(x, VScale(basis(Len(x), d), h)), VScale(basis(Len(x), e), h))

\* the four-point stencil before its division:
\* f(rho + dxi dt + dxj dt) - f(rho + dxj dt) - f(rho + dxi dt) + f0
Stencil(sp, fd, t, x, h, d, e) ==
    VAdd(VSub(VSub(f(sp, fd, t, Shift2(x, h, d, e)), f(sp, fd, t, Shift1(x, h, e))),
              f(sp, fd, t, Shift1(x, h, d))),
         f(sp, fd, t, x))

\* the Jacobian column left undivided
L0JacColumnUndivided(sp, fd, t, x, h, d) ==
    VSub(f(sp, fd, t, Shift1(x, h, d)), f(sp, fd, t, x))

\* L0: jac[:, i] = (f(t, rho + dt * dxi) - f0).to_array().flatten() / dt
L0JacColumn(sp, fd, t, x, h, d) ==
    VDivS(VSub(f(sp, fd, t, Shift1(x, h, d)), f(sp, fd, t, x)), h)

\* L0(system, f)(t, rho, dt)
L0(sp, fd, t, x, h) ==
    LET n == Len(x)
        f0 == f(sp, fd, t, x)
        out0 == VDivS(VSub(f(sp, fd, CAdd(t, h), x), f0), h)
        jac == [d \in 1..n |-> L0JacColumn(sp, fd, t, x, h, d)]
        out1 == VAdd(out0, MatVec(jac, drift(sp, t, x)))
        sec(d, e) == VScale(VDivS(VDivS(Stencil(sp, fd, t, x, h, d, e), h), h), Half)
        term(d, e, c) ==
            VScale(VScale(sec(d, e), inner(basis(n, d), diffusion(sp, t, x)[c])),
                   inner(basis(n, e), diffusion(sp, t, x)[c]))
        pairTerm(d, e) ==
            VSum([c \in 1..sp.num_collapse |-> term(d, e, c - 1)], n)
    IN VAdd(out1,
            VSum([m \in 1..(n * n) |-> pairTerm(product2(n)[m][1], product2(n)[m][2])], n))

\* the result is not divided by dt
LUndivided(sp, ii, fd, t, x, h) ==
    LET n == Len(x)
        jac == [d \in 1..n |-> VSub(f(sp, fd, t, Shift1(x, h, d)), f(sp, fd, t, x))]
    IN MatVec(jac, diffusion(sp, t, x)[ii])

\* L(system, ii, f)(t, rho, dt):
\* jac[:, i] = f(t, rho + dt * dxi) - f0; jac @ system.diffusion(t, rho)[ii] / dt
L(sp, ii, fd, t, x, h) ==
    LET n == Len(x)
        jac == [d \in 1..n |-> VSub(f(sp, fd, t, Shift1(x, h, d)), f(sp, fd, t, x))]
    IN VDivS(MatVec(jac, diffusion(sp, t, x)[ii]), h)

\* db taken with the channel state perturbed along dxj
LLdbAlongJ(sp, jj, t, x, h, d, e) ==
    VDivS(VSub(diffusion(sp, t, Shift1(x, h, e))[jj], diffusion(sp, t, x)[jj]), h)

\* LL: db = (system.diffusion(t, rho + dxi * dt)[jj]
\*           - system.diffusion(t, rho)[jj]) / dt
LLdb(sp, jj, t, x, h, d, e) ==
    VDivS(VSub(diffusion(sp, t, Shift1(x, h, d))[jj], diffusion(sp, t, x)[jj]), h)

\* LL(system, ii, jj, f)(t, rho, dt)
LL(sp, ii, jj, fd, t, x, h) ==
    LET n == Len(x)
        f0 == f(sp, fd, t, x)
        bi == diffusion(sp, t, x)[ii]
        bj == diffusion(sp, t, x)[jj]
        sec(d, e) == VDivS(VDivS(Stencil(sp, fd, t, x, h, d, e), h), h)
        df(e) == VDivS(VSub(f(sp, fd, t, Shift1(x, h, e)), f0), h)
        pairTerm(d, e) ==
            VAdd(VScale(VScale(sec(d, e), inner(basis(n, d), bi)),
                        inner(basis(n, e), bj)),
                 VScale(VScale(df(e), inner(basis(n, d), bi)),
                        inner(basis(n, e), LLdb(sp, jj, t, x, h, d, e))))
    IN VAdd(VScale(x, CZero),
            VSum([m \in 1..(n * n) |-> pairTerm(product2(n)[m][1], product2(n)[m][2])], n))

\* ------------------------------------------------------------------------
\* Evaluations of L0, L and LL

States == {[m \in 1..n |-> Cx(m, m - 1)] : n \in 1..MaxDim}
            \cup {[m \in 1..n |-> Cx(1 - m, 2)] : n \in 1..MaxDim}
Times == {Cx(0, 0), Cx(1, 0)}
StepSizes == {Cx(-2, 0), CNorm(1, 0, 2)}

InitOperators ==
    /\ DrvIdle
    /\ ValIdle
    /\ FileIdle
    /\ opc = "ready"
    /\ sys \in Systems
    /\ rho \in States
    /\ tm \in Times
    /\ dt \in StepSizes
    /\ call = <<>>
    /\ out = <<>>

\* L0(system, f)(t, rho, dt=dt)
EvalL0 ==
    /\ opc = "ready"
    /\ \E fd \in Fields(sys) :
         /\ call' = [op |-> "L0", field |-> fd, ii |-> -1, jj |-> -1]
         /\ out' = L0(sys, fd, tm, rho, dt)
    /\ opc' = "evaluated"
    /\ UNCHANGED <<sys, rho, tm, dt, drvVars, valVars, fileVars>>

\* L(system, ii, f)(t, rho, dt=dt)
EvalL ==
    /\ opc = "ready"
    /\ \E fd \in Fields(sys), ii \in 0..(sys.num_collapse - 1) :
         /\ call' = [op |-> "L", field |-> fd, ii |-> ii, jj |-> -1]
         /\ out' = L(sys, ii, fd, tm, rho, dt)
    /\ opc' = "evaluated"
    /\ UNCHANGED <<sys, rho, tm, dt, drvVars, valVars, fileVars>>

\* LL(system, ii, jj, f)(t, rho, dt=dt)
EvalLL ==
    /\ opc = "ready"
    /\ \E fd \in Fields(sys), ii \in 0..(sys.num_collapse - 1),
          jj \in 0..(sys.num_collapse - 1) :
         /\ call' = [op |-> "LL", field |-> fd, ii |-> ii, jj |-> jj]
         /\ out' = LL(sys, ii, jj, fd, tm, rho, dt)
    /\ opc' = "evaluated"
    /\ UNCHANGED <<sys, rho, tm, dt, drvVars, valVars, fileVars>>

NextOperators ==
    \/ EvalL0
    \/ EvalL
    \/ EvalLL

SpecOperators == InitOperators /\ [][NextOperators]_vars

\* ------------------------------------------------------------------------
\* Properties of L0, L and LL on the identity field f(t, state) = state

\* C4: L0 applied to the identity field returns exactly system.drift(t, state),
\* for every system, state, time and nonzero step size: the time-derivative
\* term is zero, column d of the Jacobian is the unit vector d, and every
\* four-point stencil is zero.
C4_L0IdentityIsDrift ==
    (opc = "evaluated" /\ call.op = "L0" /\ call.field = Identity) =>
        /\ out = drift(sys, tm, rho)
        /\ VDivS(VSub(f(sys, Identity, CAdd(tm, dt), rho), f(sys, Identity, tm, rho)), dt)
              = VZero(Len(rho))
        /\ \A d \in 1..Len(rho) :
              L0JacColumn(sys, Identity, tm, rho, dt, d) = basis(Len(rho), d)
        /\ \A d, e \in 1..Len(rho) :
              Stencil(sys, Identity, tm, rho, dt, d, e) = VZero(Len(rho))

\* L0 of the identity evaluated on a system with two channels, a state of
\* dimension two and a step size that is not one
C4_Witness ==
    /\ opc = "evaluated" /\ call.op = "L0" /\ call.field = Identity
    /\ sys.num_collapse = 2 /\ Len(rho) = 2 /\ dt # COne
    /\ out # VZero(2)

\* C5: L applied to the identity field and channel ii returns exactly the
\* ii-th vector of system.diffusion(t, state): the undivided difference
\* matrix is dt times the identity and the division by dt cancels it.
C5_LIdentityIsDiffusion ==
    (opc = "evaluated" /\ call.op = "L" /\ call.field = Identity) =>
        /\ out = diffusion(sys, tm, rho)[call.ii]
        /\ \A d \in 1..Len(rho) :
              VSub(f(sys, Identity, tm, Shift1(rho, dt, d)), f(sys, Identity, tm, rho))
                = VScale(basis(Len(rho), d), dt)

\* L of the identity evaluated for the second channel of a system
C5_Witness ==
    /\ opc = "evaluated" /\ call.op = "L" /\ call.field = Identity
    /\ call.ii = 1 /\ Len(rho) = 2 /\ dt # COne
    /\ out # VZero(2)

\* the correction term of LL for the identity field: channel jj perturbed
\* along direction d only, weighted by component d of channel ii, the
\* field difference along direction e being the unit vector e
CorrectionOnly(sp, ii, jj, t, x, h) ==
    LET n == Len(x)
        bi == diffusion(sp, t, x)[ii]
        db(d) == VDivS(VSub(diffusion(sp, t, Shift1(x, h, d))[jj],
                            diffusion(sp, t, x)[jj]), h)
    IN VSum([m \in 1..(n * n) |->
                VScale(VScale(basis(n, product2(n)[m][2]), bi[product2(n)[m][1]]),
                       db(product2(n)[m][1])[product2(n)[m][2]])], n)

\* C10: LL(system, ii, jj, identity) equals L(system, ii, g) with
\* g(t, state) = system.diffusion(t, state)[jj]: the second-difference part
\* vanishes and the correction term, with channel jj perturbed only along
\* the direction paired with channel ii, is all that remains.
C10_LLIdentityIsLOfDiffusion ==
    (opc = "evaluated" /\ call.op = "LL" /\ call.field = Identity) =>
        /\ out = L(sys, call.ii, [f |-> "b", ch |-> call.jj], tm, rho, dt)
        /\ out = CorrectionOnly(sys, call.ii, call.jj, tm, rho, dt)
        /\ \A m \in 1..(Len(rho) * Len(rho)) :
              Stencil(sys, Identity, tm, rho, dt, product2(Len(rho))[m][1],
                      product2(Len(rho))[m][2]) = VZero(Len(rho))

\* LL of the identity evaluated for two different channels, nonzero result
C10_Witness ==
    /\ opc = "evaluated" /\ call.op = "LL" /\ call.field = Identity
    /\ call.ii # call.jj /\ Len(rho) = 2
    /\ out # VZero(2)

\* ------------------------------------------------------------------------
\* fileio.py: text and numbers
\*
\* A string is a sequence of one-character strings.  A real number is
\* [neg, ds, e10]: sign, significant decimal digits (first and last nonzero;
\* none for zero) and the power of ten of the first digit, so that
\* <<2, 5>> with e10 = 0 is 2.5 and <<5>> with e10 = -2 is 0.05.  The sign of
\* a zero is kept, as a float keeps it.

MaxRows == 2        \* most rows M of a stored matrix
MaxCols == 2        \* most columns N of a stored matrix
Prec == 10          \* the digits after the point in "%.10f" and "%.10e"

DigitChar == <<"0", "1", "2", "3", "4", "5", "6", "7", "8", "9">>
DigitChars == {"0", "1", "2", "3", "4", "5", "6", "7", "8", "9"}
Whitespace == {" ", "\n", "\t"}
DigitOf(c) == CHOOSE d \in 0..9 : DigitChar[d + 1] = c

RECURSIVE NatToChars(_)
NatToChars(n) ==
    IF n < 10 THEN <<DigitChar[n + 1]>>
    ELSE NatToChars(n \div 10) \o <<DigitChar[(n % 10) + 1]>>

\* F(e), with e evaluated once however often F uses its argument
With(e, F(_)) == CHOOSE v \in {F(x) : x \in {e}} : TRUE

Least(S) == CHOOSE q \in S : \A r \in S : q <= r
Greatest(S) == CHOOSE q \in S : \A r \in S : q >= r

\* the number written by the first n digit characters of s
RECURSIVE CharsToNatUpTo(_, _)
CharsToNatUpTo(s, n) ==
    IF n = 0 THEN 0 ELSE 10 * CharsToNatUpTo(s, n - 1) + DigitOf(s[n])
CharsToNat(s) == CharsToNatUpTo(s, Len(s))

Real(neg, ds, e10) == [neg |-> neg, ds |-> ds, e10 |-> e10]
PosZero == Real(FALSE, <<>>, 0)
NegZero == Real(TRUE, <<>>, 0)
IsZero(v) == v.ds = <<>>
\* x >= 0.0, which holds of -0.0
GeqZero(v) == IsZero(v) \/ ~v.neg
\* x == y for floats: the two zeros are equal
NumEq(v, w) == (IsZero(v) /\ IsZero(w)) \/ v = w

\* the decimal digit of v at 10^pos
DigitAtPos(v, pos) ==
    LET idx == v.e10 - pos + 1
    IN IF idx >= 1 /\ idx <= Len(v.ds) THEN v.ds[idx] ELSE 0

SignChars(v) == IF v.neg THEN <<"-">> ELSE <<>>

\* "%.10f" % v, for v with no digit below 10^-10
FormatF(v) ==
    LET top == IF v.e10 > 0 THEN v.e10 ELSE 0
    IN SignChars(v)
       \o SubSeq([q \in 1..(top + 1) |-> DigitChar[DigitAtPos(v, top - q + 1) + 1]], 1, top + 1)
       \o <<".">>
       \o SubSeq([q \in 1..Prec |-> DigitChar[DigitAtPos(v, 0 - q) + 1]], 1, Prec)

\* "%.10e" % v, for v with at most eleven significant digits
FormatE(v) ==
    LET ex == IF IsZero(v) THEN 0 ELSE v.e10
        mag == IF ex < 0 THEN 0 - ex ELSE ex
        digit(q) == IF q <= Len(v.ds) THEN v.ds[q] ELSE 0
    IN SignChars(v)
       \o <<DigitChar[digit(1) + 1], ".">>
       \o SubSeq([q \in 1..Prec |-> DigitChar[digit(q + 1) + 1]], 1, Prec)
       \o <<"e", IF ex < 0 THEN "-" ELSE "+">>
       \o (IF mag < 10 THEN <<"0">> ELSE <<>>) \o NatToChars(mag)

\* whether "%.10f" and "%.10e" write v exactly
Representable(v) ==
    /\ Len(v.ds) <= Prec + 1
    /\ IsZero(v) \/ v.e10 - Len(v.ds) + 1 >= 0 - Prec

\* the first position from p on that holds no digit
RECURSIVE ScanDigits(_, _)
ScanDigits(s, p) ==
    IF p <= Len(s) /\ s[p] \in DigitChars THEN ScanDigits(s, p + 1) ELSE p

NonZeroAt(ds) == {q \in 1..Len(ds) : ds[q] # 0}
LeadingZeros(ds) ==
    IF NonZeroAt(ds) = {} THEN Len(ds) ELSE Least(NonZeroAt(ds)) - 1
StripTrailingZeros(ds) ==
    IF NonZeroAt(ds) = {} THEN <<>> ELSE SubSeq(ds, 1, Greatest(NonZeroAt(ds)))

\* the number with digits ds, the point after the first nInt of them, times
\* 10^ex
Canonical(neg, ds, nInt, ex) ==
    LET lz == LeadingZeros(ds)
    IN With(StripTrailingZeros(SubSeq(ds, lz + 1, Len(ds))),
            LAMBDA sig : IF sig = <<>> THEN Real(neg, <<>>, 0)
                         ELSE Real(neg, sig, nInt - 1 - lz + ex))

\* the longest prefix of s from p on that is a decimal floating-point
\* literal, as strtod reads it: [ok, val, next]
Strtod(s, p) ==
    LET hasSign == p <= Len(s) /\ s[p] \in {"+", "-"}
        neg == hasSign /\ s[p] = "-"
        p1 == IF hasSign THEN p + 1 ELSE p
        p2 == ScanDigits(s, p1)
        hasPoint == p2 <= Len(s) /\ s[p2] = "."
        p3 == IF hasPoint THEN ScanDigits(s, p2 + 1) ELSE p2
        nInt == p2 - p1
        nFrac == IF hasPoint THEN p3 - (p2 + 1) ELSE 0
        hasE == p3 <= Len(s) /\ s[p3] \in {"e", "E"}
        eSigned == p3 + 1 <= Len(s) /\ s[p3 + 1] \in {"+", "-"}
        pe2 == IF eSigned THEN p3 + 2 ELSE p3 + 1
        pe3 == ScanDigits(s, pe2)
        okExp == hasE /\ pe3 > pe2
        mag == CharsToNat(SubSeq(s, pe2, pe3 - 1))
        ex == IF ~okExp THEN 0
              ELSE IF eSigned /\ s[p3 + 1] = "-" THEN 0 - mag ELSE mag
        chars == SubSeq(s, p1, p2 - 1)
                 \o (IF hasPoint THEN SubSeq(s, p2 + 1, p3 - 1) ELSE <<>>)
        Digits(cs) == SubSeq([q \in 1..Len(cs) |-> DigitOf(cs[q])], 1, Len(cs))
    IN IF nInt + nFrac = 0
       THEN [ok |-> FALSE, val |-> PosZero, next |-> p]
       ELSE [ok |-> TRUE,
             val |-> With(With(chars, Digits),
                          LAMBDA digs : Canonical(neg, digs, nInt, ex)),
             next |-> IF okExp THEN pe3 ELSE p3]

InkAt(s) == {q \in 1..Len(s) : s[q] \notin Whitespace}
\* s.rstrip()
RStrip(s) == IF InkAt(s) = {} THEN <<>> ELSE SubSeq(s, 1, Greatest(InkAt(s)))
\* s.lstrip()
LStrip(s) == IF InkAt(s) = {} THEN <<>> ELSE SubSeq(s, Least(InkAt(s)), Len(s))
\* s.strip()
Strip(s) == IF InkAt(s) = {} THEN <<>> ELSE SubSeq(s, Least(InkAt(s)), Greatest(InkAt(s)))

\* float(s): [ok, val]; surrounding whitespace is allowed
ParseFloatStripped(t) ==
    With(Strtod(t, 1),
         LAMBDA r : [ok |-> r.ok /\ r.next = Len(t) + 1, re |-> r.val, im |-> PosZero])
ParseFloat(s) == With(Strip(s), ParseFloatStripped)

\* complex(s): <float>, <float>j, <float><signed-float>j, <float><sign>j,
\* <sign>j or j; anything else is a ValueError
ParseComplexStripped(t) ==
    LET at(p) == IF p <= Len(t) THEN t[p] ELSE ""
        One(neg) == Real(neg, <<1>>, 0)
        bad == [ok |-> FALSE, re |-> PosZero, im |-> PosZero]
        done(re, im, p) == IF p = Len(t) + 1 THEN [ok |-> TRUE, re |-> re, im |-> im]
                           ELSE bad
        \* what follows the real part z when a sign comes next
        Imag(z) ==
            With(Strtod(t, z.next),
                 LAMBDA y :
                    LET im == IF y.ok THEN y.val ELSE One(at(z.next) = "-")
                        p == IF y.ok THEN y.next ELSE z.next + 1
                    IN IF at(p) \in {"j", "J"} THEN done(z.val, im, p + 1) ELSE bad)
        Parsed(z) ==
            IF z.ok
            THEN IF at(z.next) \in {"+", "-"} THEN Imag(z)
                 ELSE IF at(z.next) \in {"j", "J"} THEN done(PosZero, z.val, z.next + 1)
                 ELSE done(z.val, PosZero, z.next)
            ELSE LET p == IF at(1) \in {"+", "-"} THEN 2 ELSE 1
                 IN IF at(p) \in {"j", "J"} THEN done(PosZero, One(at(1) = "-"), p + 1)
                    ELSE bad
    IN With(Strtod(t, 1), Parsed)
ParseComplex(s) == With(Strip(s), ParseComplexStripped)

\* the q-th least member of the set S of numbers
Nth(S, q) == CHOOSE p \in S : Cardinality({r \in S : r < p}) = q - 1

\* s.split(c) for a one-character separator c: the pieces between the
\* occurrences of c
Split(s, c) ==
    With({p \in 1..Len(s) : s[p] = c},
         LAMBDA hits :
            LET cnt == Cardinality(hits)
            IN SubSeq([q \in 1..(cnt + 1) |->
                         SubSeq(s, IF q = 1 THEN 1 ELSE Nth(hits, q - 1) + 1,
                                   IF q = cnt + 1 THEN Len(s) ELSE Nth(hits, q) - 1)],
                      1, cnt + 1))

\* s.split(): the runs of characters between whitespace
SplitWS(s) ==
    With([starts |-> {p \in InkAt(s) : p = 1 \/ s[p - 1] \in Whitespace},
          ends |-> {p \in InkAt(s) : p = Len(s) \/ s[p + 1] \in Whitespace}],
         LAMBDA runs :
            LET cnt == Cardinality(runs.starts)
            IN SubSeq([q \in 1..cnt |->
                         SubSeq(s, Nth(runs.starts, q), Nth(runs.ends, q))], 1, cnt))

\* s.split(sep), sep a character or None
SplitBy(s, sep) ==
    With(s, LAMBDA t : IF sep = "None" THEN SplitWS(t) ELSE Split(t, sep))

\* `c in s`
Contains(s, c) == \E p \in 1..Len(s) : s[p] = c

CharsGenerated == <<"#", " ", "G", "e", "n", "e", "r", "a", "t", "e", "d", " ", "b", "y", " ", "Q", "u", "T", "i", "P", ":", " ">>
CharsMatrixIn == <<" ", "m", "a", "t", "r", "i", "x", " ", "i", "n", " ">>
CharsFormat == <<" ", "f", "o", "r", "m", "a", "t", " ", "[", "'">>
CharsSeparated == <<"'", " ", "s", "e", "p", "a", "r", "a", "t", "e", "d", " ", "v", "a", "l", "u", "e", "s", "]", ".">> \o <<"\n">>
CharsComplex == <<"c", "o", "m", "p", "l", "e", "x">>
CharsReal == <<"r", "e", "a", "l">>
CharsDecimal == <<"d", "e", "c", "i", "m", "a", "l">>
CharsExp == <<"e", "x", "p">>
CharsOther == <<"o", "t", "h", "e", "r">>

\* ------------------------------------------------------------------------
\* fileio.py: file_data_store

NameChars(name) ==
    CASE name = "complex" -> CharsComplex
      [] name = "real"    -> CharsReal
      [] name = "decimal" -> CharsDecimal
      [] name = "exp"     -> CharsExp
      [] OTHER            -> CharsOther

\* f.write("# Generated by QuTiP: %dx%d %s matrix " % (M, N, numtype) +
\*         "in %s format ['%s' separated values].\n" % (numformat, sep))
HeaderLine(M, ncols, numtype, numformat, sep) ==
    CharsGenerated \o NatToChars(M) \o <<"x">> \o NatToChars(ncols) \o <<" ">>
    \o NameChars(numtype) \o CharsMatrixIn \o NameChars(numformat)
    \o CharsFormat \o <<sep>> \o CharsSeparated

\* one entry as written: "%.10e+%.10ej" or "%.10e%.10ej" by the sign of the
\* imaginary part (likewise with %.10f), or "%.10e" / "%.10f" of the real part
ItemChars(z, numtype, numformat) ==
    LET F(v) == IF numformat = "exp" THEN FormatE(v) ELSE FormatF(v)
    IN IF numtype = "complex"
       THEN IF GeqZero(z.im) THEN F(z.re) \o <<"+">> \o F(z.im) \o <<"j">>
            ELSE F(z.re) \o F(z.im) \o <<"j">>
       ELSE F(z.re)

\* the line of one row: the entries, sep after all but the last, "\n"
RECURSIVE RowChars(_, _, _, _, _)
RowChars(row, n, numtype, numformat, sep) ==
    IF n > Len(row) THEN <<"\n">>
    ELSE ItemChars(row[n], numtype, numformat)
         \o (IF n # Len(row) THEN <<sep>> ELSE <<>>)
         \o RowChars(row, n + 1, numtype, numformat, sep)

\* file_data_store(filename, data, numtype, numformat, sep), filename and
\* data given: what is raised, and the lines written
file_data_store(mat, numtype, numformat, sep) ==
    LET M == Len(mat)
        ncols == Len(mat[1])
        header == HeaderLine(M, ncols, numtype, numformat, sep)
    IN IF numtype \notin {"complex", "real"} \/ numformat \notin {"exp", "decimal"}
       THEN [raised |-> "ValueError", lines |-> <<header>>]
       ELSE [raised |-> "",
             lines |-> <<header>>
                       \o SubSeq([m \in 1..M |-> RowChars(mat[m], 1, numtype, numformat, sep)],
                                 1, M)]

\* ------------------------------------------------------------------------
\* fileio.py: file_data_read

IsComment(line) == line[1] = "#" \/ line[1] = "%"

\* the column delimiter found in the first data line, sep being None:
\* a one-character separator, "None" for whitespace, or "" when none is
\* recognised
FindDelim(line) ==
    With(RStrip(line),
         LAMBDA r :
            IF Len(Split(r, ",")) > 1 THEN ","
            ELSE IF Len(Split(r, ";")) > 1 THEN ";"
            ELSE IF Len(Split(r, ":")) > 1 THEN ":"
            ELSE IF Len(Split(r, "|")) > 1 THEN "|"
            ELSE IF Len(SplitWS(r)) > 1 THEN "None"
            ELSE "")

\* the lines that are not comments, in order
DataLines(lines) ==
    LET at == {n \in 1..Len(lines) : ~IsComment(lines[n])}
    IN SubSeq([q \in 1..Cardinality(at) |-> lines[Nth(at, q)]], 1, Cardinality(at))

\* the first loop over the file: the first data line fixes sep (when it is
\* None), N and numtype; every data line is split by sep, must have N items
\* and adds one to M
CountPass(lines, sep) ==
    LET Counted(rows, found) ==
            With(SplitBy(rows[1], found),
                 LAMBDA first :
                    LET st == [M |-> Len(rows), N |-> Len(first), sep |-> found,
                               numtype |-> IF first = <<>> THEN ""
                                           ELSE IF Contains(first[1], "j")
                                                   \/ Contains(first[1], "i")
                                           THEN "complex" ELSE "np.real",
                               raised |-> ""]
                    IN IF \E m \in 2..Len(rows) : Len(SplitBy(rows[m], found)) # st.N
                       THEN [st EXCEPT !.raised = "ValueError: Badly formatted data file"]
                       ELSE st)
        Found(rows) ==
            With(IF sep = "None" THEN FindDelim(rows[1]) ELSE sep,
                 LAMBDA found :
                    IF found = ""
                    THEN [M |-> 0, N |-> 0, sep |-> sep, numtype |-> "",
                          raised |-> "ValueError: Unrecognized column deliminator"]
                    ELSE Counted(rows, found))
    IN With(DataLines(lines),
            LAMBDA rows :
               IF rows = <<>>
               THEN [M |-> 0, N |-> 0, sep |-> sep, numtype |-> "", raised |-> ""]
               ELSE Found(rows))

\* one row of the second loop: the items of line.rstrip().split(sep) parsed
\* into a row of N zeros
ReadRow(line, sep, numtype, ncols) ==
    LET Parse(items) ==
            SubSeq([q \in 1..Len(items) |->
                      IF numtype = "complex" THEN ParseComplex(items[q])
                      ELSE ParseFloat(items[q])], 1, Len(items))
        Row(parsed) ==
            IF \E q \in 1..Len(parsed) : ~parsed[q].ok /\ q - 1 <= ncols
            THEN [raised |-> "ValueError", row |-> <<>>]
            ELSE IF Len(parsed) > ncols
            THEN [raised |-> "IndexError", row |-> <<>>]
            ELSE [raised |-> "",
                  row |-> SubSeq([q \in 1..ncols |->
                                    IF q <= Len(parsed)
                                    THEN [re |-> parsed[q].re, im |-> parsed[q].im]
                                    ELSE [re |-> PosZero, im |-> PosZero]], 1, ncols)]
    IN With(With(SplitBy(RStrip(line), sep), Parse), Row)

\* the second loop over the file: the rows read, or what the first row
\* that cannot be read raises
ReadPass(lines, sep, numtype, ncols) ==
    LET Read(rows) ==
            SubSeq([m \in 1..Len(rows) |-> ReadRow(rows[m], sep, numtype, ncols)],
                   1, Len(rows))
        Rows(got) ==
            LET failed == {m \in 1..Len(got) : got[m].raised # ""}
            IN IF failed # {} THEN [raised |-> got[Least(failed)].raised, rows |-> <<>>]
               ELSE [raised |-> "",
                     rows |-> SubSeq([m \in 1..Len(got) |-> got[m].row], 1, Len(got))]
    IN With(With(DataLines(lines), Read), Rows)

\* file_data_read(filename, sep): what is raised, the dtype and the rows of
\* the array returned
file_data_read(lines, sep) ==
    LET Returned(st, got) ==
            IF got.raised # "" THEN [raised |-> got.raised, dtype |-> "", rows |-> <<>>]
            ELSE [raised |-> "",
                  dtype |-> IF st.numtype = "complex" THEN "complex" ELSE "float",
                  rows |-> got.rows]
        SecondLoop(st) ==
            IF st.raised # "" THEN [raised |-> st.raised, dtype |-> "", rows |-> <<>>]
            ELSE IF st.numtype = ""
            THEN [raised |-> "UnboundLocalError", dtype |-> "", rows |-> <<>>]
            ELSE With(ReadPass(lines, st.sep, st.numtype, st.N),
                      LAMBDA got : Returned(st, got))
    IN With(CountPass(lines, sep), SecondLoop)

\* ------------------------------------------------------------------------
\* Writing a matrix and reading it back

Entry(re, im) == [re |-> re, im |-> im]
\* 1, -2.5+0.05j, 0.05-12j and 12 with the imaginary part -0.0
Pool == <<Entry(Real(FALSE, <<1>>, 0), PosZero),
          Entry(Real(TRUE, <<2, 5>>, 0), Real(FALSE, <<5>>, -2)),
          Entry(Real(FALSE, <<5>>, -2), Real(TRUE, <<1, 2>>, 1)),
          Entry(Real(FALSE, <<1, 2>>, 1), NegZero)>>

\* the M-by-N matrix whose entries, row after row, walk the pool from
\* entry first in steps of step
Matrix(M, ncols, first, step) ==
    [m \in 1..M |->
        [n \in 1..ncols |->
            Pool[((first - 1 + step * ((m - 1) * ncols + (n - 1))) % Len(Pool)) + 1]]]

Matrices ==
    {Matrix(M, ncols, first, step) :
        M \in 1..MaxRows, ncols \in 1..MaxCols,
        first \in 1..Len(Pool), step \in 0..(Len(Pool) - 1)}

InitFile ==
    /\ DrvIdle
    /\ ValIdle
    /\ OpIdle
    /\ fpc = "start"
    /\ data \in Matrices
    /\ fmt \in [numtype : {"complex", "real", "other"},
                numformat : {"decimal", "exp", "other"},
                sep : {",", ";", ":", "|", " "}]
    /\ file = <<>>
    /\ readback = <<>>

\* file_data_store(filename, data, numtype, numformat, sep)
Store ==
    /\ fpc = "start"
    /\ \E r \in {file_data_store(data, fmt.numtype, fmt.numformat, fmt.sep)} :
          /\ file' = r.lines
          /\ fpc' = IF r.raised = "" THEN "stored" ELSE "store_raised"
    /\ UNCHANGED <<data, fmt, readback, drvVars, valVars, opVars>>

\* file_data_read(filename), sep left at None
Read ==
    /\ fpc = "stored"
    /\ readback' = file_data_read(file, "None")
    /\ fpc' = IF readback'.raised = "" THEN "returned" ELSE "read_raised"
    /\ UNCHANGED <<data, fmt, file, drvVars, valVars, opVars>>

NextFile ==
    \/ Store
    \/ Read

SpecFile == InitFile /\ [][NextFile]_vars

\* ------------------------------------------------------------------------
\* Properties of the round trip

Rows == Len(data)
Cols == Len(data[1])

\* the entries are written exactly: every part written has at most ten
\* digits after the point and eleven significant digits, and numtype "real"
\* is given real entries
WrittenExactly ==
    \A m \in 1..Rows, n \in 1..Cols :
        /\ Representable(data[m][n].re)
        /\ fmt.numtype = "complex" => Representable(data[m][n].im)
        /\ fmt.numtype = "real" => IsZero(data[m][n].im)

ClaimedInputs ==
    /\ fmt.numtype \in {"real", "complex"}
    /\ fmt.numformat \in {"decimal", "exp"}
    /\ fmt.sep \in {",", ";", ":", "|"}
    /\ WrittenExactly

\* the array read back has the shape and the entries of the matrix stored
SameMatrix ==
    /\ fpc = "returned"
    /\ Len(readback.rows) = Rows
    /\ \A m \in 1..Rows :
          /\ Len(readback.rows[m]) = Cols
          /\ \A n \in 1..Cols :
                /\ NumEq(readback.rows[m][n].re, data[m][n].re)
                /\ NumEq(readback.rows[m][n].im, data[m][n].im)

\* C8: a matrix with M >= 1 rows and N >= 1 columns of exactly written
\* entries, stored with numtype real or complex, numformat decimal or exp
\* and sep one of , ; : |, is read back by file_data_read with sep = None
\* as an M-by-N array with the same entries.
C8_RoundTrip ==
    (ClaimedInputs /\ fpc \in {"returned", "read_raised"}) => SameMatrix

\* no imaginary part written is a negative zero
NoNegativeZeroImag ==
    \A m \in 1..Rows, n \in 1..Cols : data[m][n].im # NegZero

\* what file_data_read does with the files of C8: matrices of two or more
\* columns come back unchanged, unless a complex entry has the imaginary
\* part -0.0; a single column is never read, whatever its entries
RoundTripOfWideMatrices ==
    (ClaimedInputs /\ fpc \in {"returned", "read_raised"} /\ Cols >= 2
        /\ (fmt.numtype = "complex" => NoNegativeZeroImag)) => SameMatrix
SingleColumnIsNotRead ==
    (ClaimedInputs /\ fpc \in {"returned", "read_raised"} /\ Cols = 1) =>
        /\ fpc = "read_raised"
        /\ readback.raised = "ValueError: Unrecognized column deliminator"
NegativeZeroImagIsNotRead ==
    (ClaimedInputs /\ fpc \in {"returned", "read_raised"} /\ Cols >= 2
        /\ fmt.numtype = "complex" /\ ~NoNegativeZeroImag) =>
        /\ fpc = "read_raised"
        /\ readback.raised = "ValueError"

====
